---------------------------- MODULE Spec2Model ----------------------------
(***************************************************************************)
(* Model of the retrieval-augmented generation pipeline:                   *)
(*   PDFProcessor      (src/pdf_processor.py)                              *)
(*   CitationGenerator (src/citation_generator.py)                         *)
(*   BatchIndexer      (src/batch_indexer.py)                              *)
(*   RAGEngine         (src/rag_engine.py)                                 *)
(*                                                                         *)
(* Python strings are TLA+ strings (sequences of characters): Len, \o and  *)
(* SubSeq are the string operations.  Czech diacritics of the source's     *)
(* literals are written without accents; lengths are unchanged.            *)
(*                                                                         *)
(* Fault model: the collaborators (PDF library, vector store, generation   *)
(* service) and the processing steps inside a try block may raise; the     *)
(* print statements and the bookkeeping of the except handlers do not.     *)
(***************************************************************************)
EXTENDS Integers, Sequences, FiniteSets, TLC

-----------------------------------------------------------------------------
(* Python string primitives *)

Ch(s, i) == SubSeq(s, i, i)

\* characters str.strip() and str.split() treat as whitespace
Whitespace == {" ", "\t", "\n", "\r", "\f"}

Min(S) == CHOOSE m \in S : \A k \in S : m <= k

Max(S) == CHOOSE m \in S : \A k \in S : m >= k

\* s.strip()
Strip(s) ==
    IF \A k \in 1..Len(s) : Ch(s, k) \in Whitespace THEN ""
    ELSE LET first == CHOOSE a \in 1..Len(s) :
                         /\ Ch(s, a) \notin Whitespace
                         /\ \A k \in 1..(a - 1) : Ch(s, k) \in Whitespace
             drop == CHOOSE d \in 0..(Len(s) - 1) :
                        /\ Ch(s, Len(s) - d) \notin Whitespace
                        /\ \A k \in (Len(s) - d + 1)..Len(s) :
                              Ch(s, k) \in Whitespace
         IN  SubSeq(s, first, Len(s) - drop)

\* positions at which sep occurs in s
Occurrences(s, sep) ==
    {i \in 1..(Len(s) - Len(sep) + 1) : SubSeq(s, i, i + Len(sep) - 1) = sep}

\* sep in s
Contains(s, sep) == Occurrences(s, sep) # {}

\* s.split(sep): non-overlapping occurrences, left to right
RECURSIVE SplitFrom(_, _, _)
SplitFrom(s, sep, from) ==
    LET occ == {i \in Occurrences(s, sep) : i >= from}
    IN  IF occ = {}
        THEN <<SubSeq(s, from, Len(s))>>
        ELSE <<SubSeq(s, from, Min(occ) - 1)>>
             \o SplitFrom(s, sep, Min(occ) + Len(sep))

Split(s, sep) == SplitFrom(s, sep, 1)

\* sep.join(parts)
RECURSIVE Join(_, _)
Join(parts, sep) ==
    IF parts = <<>> THEN ""
    ELSE IF Len(parts) = 1 THEN parts[1]
    ELSE parts[1] \o sep \o Join(Tail(parts), sep)

\* s.replace(old, new)
Replace(s, old, new) == Join(Split(s, old), new)

\* s.split(): the words between runs of whitespace
Words(s) ==
    LET starts == {i \in 1..Len(s) :
                     /\ Ch(s, i) \notin Whitespace
                     /\ (i = 1 \/ Ch(s, i - 1) \in Whitespace)}
        EndOf(i) == Min({k \in i..Len(s) :
                           k = Len(s) \/ Ch(s, k + 1) \in Whitespace})
        RECURSIVE Collect(_)
        Collect(S) == IF S = {} THEN <<>>
                      ELSE <<SubSeq(s, Min(S), EndOf(Min(S)))>>
                           \o Collect(S \ {Min(S)})
    IN  Collect(starts)

Digit == {"0", "1", "2", "3", "4", "5", "6", "7", "8", "9"}

DigitOf(d) == Ch("0123456789", d + 1)

\* str(n) for n >= 0
RECURSIVE IntToStr(_)
IntToStr(n) ==
    IF n < 10 THEN DigitOf(n) ELSE IntToStr(n \div 10) \o DigitOf(n % 10)

\* c * n
RECURSIVE Rep(_, _)
Rep(c, n) ==
    IF n = 0 THEN ""
    ELSE LET h == Rep(c, n \div 2)
         IN  h \o h \o (IF n % 2 = 1 THEN c ELSE "")

\* os.path.basename(path)
basename(path) ==
    LET slashes == Occurrences(path, "/")
    IN  IF slashes = {} THEN path
        ELSE SubSeq(path, Max(slashes) + 1, Len(path))

-----------------------------------------------------------------------------
(* Config (src/config.py) *)

CHUNK_SIZE == 400

CHUNK_OVERLAP == 100

\* default of TOP_K_RESULTS
TOP_K_RESULTS == 5

\* Config.PDF_SOURCES_DIR as deployed (the Railway default)
PDF_SOURCES_DIR == "./pdf_sources"

\* str(Path(p)) of a relative path: a leading "./" is dropped
PathStr(p) == IF SubSeq(p, 1, 2) = "./" THEN SubSeq(p, 3, Len(p)) ELSE p

-----------------------------------------------------------------------------
(* PDFProcessor (src/pdf_processor.py) *)

\* A PDF file on disk: [name, corrupt, pages].  corrupt: fitz.open raises on
\* it.  pages: the text page.get_text() returns for each page.

\* the body of the page loop of extract_text_from_pdf
RECURSIVE PageText(_, _)
PageText(pages, page_num) ==
    IF page_num > Len(pages) THEN ""
    ELSE (IF Strip(pages[page_num]) # ""
          THEN "\n--- Stranka " \o IntToStr(page_num) \o " ---\n"
               \o pages[page_num]
          ELSE "")
         \o PageText(pages, page_num + 1)

\* extract_text_from_pdf: any exception of the PDF library is caught and
\* turned into the empty string
extract_text_from_pdf(pdf) ==
    IF pdf.corrupt THEN "" ELSE Strip(PageText(pdf.pages, 1))

WordChars ==
    "abcdefghijklmnopqrstuvwxyzABCDEFGHIJKLMNOPQRSTUVWXYZ0123456789_"

\* \w of the re module
IsWordChar(c) == Contains(WordChars, c)

\* positions where r'\b(19|20)\d{2}\b' matches
YearMatches(name) ==
    {i \in 1..(Len(name) - 3) :
        /\ SubSeq(name, i, i + 1) \in {"19", "20"}
        /\ Ch(name, i + 2) \in Digit
        /\ Ch(name, i + 3) \in Digit
        /\ (i = 1 \/ ~IsWordChar(Ch(name, i - 1)))
        /\ (i + 3 = Len(name) \/ ~IsWordChar(Ch(name, i + 4)))}

extract_metadata_from_filename(filename) ==
    LET name == Replace(filename, ".pdf", "")
        m0 == [filename |-> filename, title |-> name, author |-> "Unknown",
               year |-> "Unknown", source_type |-> "document"]
        uparts == Split(name, "_")
        m1 == IF /\ Contains(name, "_")
                 /\ Len(uparts) >= 2
                 /\ Len(Words(uparts[1])) <= 3
              THEN [m0 EXCEPT !.author = Replace(uparts[1], "_", " "),
                              !.title = Replace(Join(Tail(uparts), "_"),
                                                "_", " ")]
              ELSE m0
        cparts == Split(name, ",")
        m2 == IF /\ Contains(name, ",")
                 /\ ~Contains(name, "_")
                 /\ Len(cparts) >= 2
              THEN [m1 EXCEPT !.author = Strip(cparts[1]),
                              !.title = Strip(cparts[2])]
              ELSE m1
        ym == YearMatches(name)
    IN  IF ym # {}
        THEN [m2 EXCEPT !.year = SubSeq(name, Min(ym), Min(ym) + 3)]
        ELSE m2

\* mutation of Chunk: the ids are numbered from 1
Chunk_one_based(metadata, chunk_id, current_chunk) ==
    [id |-> metadata.filename \o "_chunk_" \o IntToStr(chunk_id + 1),
     text |-> Strip(current_chunk),
     metadata |-> metadata,
     chunk_index |-> chunk_id]

\* one chunk as chunk_text emits it
Chunk(metadata, chunk_id, current_chunk) ==
    [id |-> metadata.filename \o "_chunk_" \o IntToStr(chunk_id),
     text |-> Strip(current_chunk),
     metadata |-> metadata,
     chunk_index |-> chunk_id]

\* s[-n:] of a Python string: the last n characters, all of s for n = 0
LastChars(s, n) ==
    IF n = 0 \/ n >= Len(s) THEN s ELSE SubSeq(s, Len(s) - n + 1, Len(s))

\* mutation of OverlapText: the next buffer starts without overlap
OverlapText_none(current_chunk, cfg) == ""

\* current_chunk[-self.chunk_overlap:] if len(current_chunk) >
\* self.chunk_overlap else current_chunk
OverlapText(current_chunk, cfg) ==
    IF Len(current_chunk) > cfg.chunk_overlap
    THEN LastChars(current_chunk, cfg.chunk_overlap)
    ELSE current_chunk

\* chunks.append(...) of chunk_text; buffers keeps the value current_chunk had
\* at each append
Emit(trace, metadata, chunk_id, current_chunk) ==
    [chunks |-> Append(trace.chunks, Chunk(metadata, chunk_id, current_chunk)),
     buffers |-> Append(trace.buffers, current_chunk)]

\* the paragraph loop of chunk_text, from paragraph k on
RECURSIVE ChunkLoop(_, _, _, _, _, _, _)
ChunkLoop(paragraphs, k, trace, current_chunk, chunk_id, metadata, cfg) ==
    IF k > Len(paragraphs)
    THEN IF Strip(current_chunk) # ""
         THEN Emit(trace, metadata, chunk_id, current_chunk)
         ELSE trace
    ELSE LET paragraph == paragraphs[k]
         IN  IF /\ Len(current_chunk) + Len(paragraph) > cfg.chunk_size
                /\ current_chunk # ""
             THEN ChunkLoop(paragraphs, k + 1,
                            Emit(trace, metadata, chunk_id, current_chunk),
                            OverlapText(current_chunk, cfg)
                                \o "\n\n" \o paragraph,
                            chunk_id + 1, metadata, cfg)
             ELSE ChunkLoop(paragraphs, k + 1, trace,
                            IF current_chunk # ""
                            THEN current_chunk \o "\n\n" \o paragraph
                            ELSE paragraph,
                            chunk_id, metadata, cfg)

\* [p.strip() for p in text.split('\n\n') if p.strip()]
Paragraphs(text) ==
    LET raw == Split(text, "\n\n")
        RECURSIVE Keep(_)
        Keep(k) == IF k > Len(raw) THEN <<>>
                   ELSE (IF Strip(raw[k]) # "" THEN <<Strip(raw[k])>> ELSE <<>>)
                        \o Keep(k + 1)
    IN  Keep(1)

NoChunks == [chunks |-> <<>>, buffers |-> <<>>]

\* the run of chunk_text: the chunks it appends and the buffers they came from
ChunkTrace(text, metadata, cfg) ==
    IF Strip(text) = "" THEN NoChunks
    ELSE ChunkLoop(Paragraphs(text), 1, NoChunks, "", 0, metadata, cfg)

\* chunk_text with the sizes a PDFProcessor holds (cfg: chunk_size, chunk_overlap)
chunk_text_with(text, metadata, cfg) == ChunkTrace(text, metadata, cfg).chunks

\* PDFProcessor.__init__: the sizes come from Config
ProcessorConfig == [chunk_size |-> CHUNK_SIZE, chunk_overlap |-> CHUNK_OVERLAP]

chunk_text(text, metadata) == chunk_text_with(text, metadata, ProcessorConfig)

extract_text_and_metadata(pdf_path, pdf) ==
    LET text == extract_text_from_pdf(pdf)
        filename == basename(pdf_path)
        md == extract_metadata_from_filename(filename)
    IN  [text |-> text,
         metadata |-> [filename |-> md.filename, title |-> md.title,
                       author |-> md.author, year |-> md.year,
                       source_type |-> md.source_type,
                       file_path |-> pdf_path]]

-----------------------------------------------------------------------------
(* CitationGenerator (src/citation_generator.py) *)

LowerAlpha == "abcdefghijklmnopqrstuvwxyz"

UpperAlpha == "ABCDEFGHIJKLMNOPQRSTUVWXYZ"

\* c.lower() and c.upper() of one character
LowerCh(c) ==
    IF Contains(UpperAlpha, c)
    THEN Ch(LowerAlpha, Min(Occurrences(UpperAlpha, c))) ELSE c

UpperCh(c) ==
    IF Contains(LowerAlpha, c)
    THEN Ch(UpperAlpha, Min(Occurrences(LowerAlpha, c))) ELSE c

\* word.lower()
RECURSIVE Lower(_)
Lower(w) == IF w = "" THEN "" ELSE LowerCh(Ch(w, 1)) \o Lower(SubSeq(w, 2, Len(w)))

\* word.capitalize()
Capitalize(w) ==
    IF w = "" THEN "" ELSE UpperCh(Ch(w, 1)) \o Lower(SubSeq(w, 2, Len(w)))

\* A metadata value that is not a Python str (the store also holds int,
\* float and bool values): str methods raise AttributeError on it.
NonString == {"<int>"}

IsStr(v) == v \notin NonString

\* d.get(key, default)
Get(d, key, default) == IF key \in DOMAIN d THEN d[key] ELSE default

clean_author_name(author) ==
    IF author = "" \/ author = "Unknown" THEN "Unknown Author"
    ELSE LET a == Join(Words(author), " ")
             authors == Split(a, ",")
             RECURSIVE Stripped(_)
             Stripped(k) == IF k > Len(authors) THEN <<>>
                            ELSE <<Strip(authors[k])>> \o Stripped(k + 1)
         IN  IF Contains(a, ",") /\ Len(authors) > 1
             THEN Stripped(1)[1] \o ", " \o Join(Tail(Stripped(1)), ", ")
             ELSE a

lowercase_words ==
    {"a", "an", "and", "as", "at", "but", "by", "for", "if", "in", "nor",
     "of", "on", "or", "so", "the", "to", "up", "yet"}

title_case(text) ==
    LET words == Words(text)
        RECURSIVE Result(_)
        Result(i) ==
            IF i > Len(words) THEN <<>>
            ELSE <<IF i = 1 \/ i = Len(words) THEN Capitalize(words[i])
                   ELSE IF Lower(words[i]) \in lowercase_words
                        THEN Lower(words[i])
                        ELSE Capitalize(words[i])>>
                 \o Result(i + 1)
    IN  Join(Result(1), " ")

clean_title(title) ==
    IF title = "" THEN "Untitled Document"
    ELSE title_case(Join(Words(Replace(Replace(title, ".pdf", ""), "_", " ")),
                         " "))

\* generate_reference_citation raises on this metadata (a str method is
\* called on a value that is no str)
reference_citation_raises(metadata) ==
    \/ ~IsStr(Get(metadata, "author", "Unknown"))
    \/ ~IsStr(Get(metadata, "title", "Untitled"))

generate_reference_citation(metadata) ==
    LET author == clean_author_name(Get(metadata, "author", "Unknown"))
        title == clean_title(Get(metadata, "title", "Untitled"))
        year == Get(metadata, "year", "n.d.")
        filename == Get(metadata, "filename", "")
        citation == author \o " (" \o year \o "). " \o title \o "."
    IN  IF "file_path" \in DOMAIN metadata
        THEN citation \o " Retrieved from " \o filename
        ELSE citation

generate_in_text_citation(metadata) ==
    "(" \o clean_author_name(Get(metadata, "author", "Unknown")) \o ", "
        \o Get(metadata, "year", "n.d.") \o ")"

\* mutation of UniqueSources: every source is cited, repeated filenames too
UniqueSources_all(used_sources, seen) == used_sources

\* the sources format_citations_for_response cites: the first of each filename
RECURSIVE UniqueSources(_, _)
UniqueSources(used_sources, seen) ==
    IF used_sources = <<>> THEN <<>>
    ELSE LET filename == Get(Head(used_sources), "filename", "Unknown")
         IN  IF filename \in seen
             THEN UniqueSources(Tail(used_sources), seen)
             ELSE <<Head(used_sources)>>
                  \o UniqueSources(Tail(used_sources), seen \cup {filename})

format_citations_raises(used_sources) ==
    \E i \in 1..Len(UniqueSources(used_sources, {})) :
        reference_citation_raises(UniqueSources(used_sources, {})[i])

format_citations_for_response(used_sources) ==
    IF used_sources = <<>> THEN ""
    ELSE LET unique == UniqueSources(used_sources, {})
             RECURSIVE Numbered(_)
             Numbered(i) ==
                 IF i > Len(unique) THEN ""
                 ELSE IntToStr(i) \o ". "
                      \o generate_reference_citation(unique[i]) \o "\n"
                      \o Numbered(i + 1)
         IN  "\n\n**Pouzite zdroje:**\n" \o Numbered(1)

-----------------------------------------------------------------------------
(* Bounds and the documents of the model *)

\* most PDF files in the source directory
MaxDocs == 3

\* largest batch_size a BatchIndexer is constructed with
MaxBatch == 3

\* most calls of index_all_documents on one BatchIndexer
MaxCalls == 2

\* most records of a vector store a query runs against
MaxStore == 3

\* The PDF files a source directory is filled from, in listing order:
\* [name, corrupt, pages].  corrupt: the PDF library raises on opening it.
\* pages: the text the PDF library returns for each page.
Corpus ==
    <<[name |-> "Smith_Conflict Transformation_2010.pdf", corrupt |-> FALSE,
       pages |-> <<Rep("a", 250) \o "\n\n" \o Rep("b", 250)>>],
      [name |-> "scan.pdf", corrupt |-> FALSE, pages |-> <<" \n", "">>],
      [name |-> "Bush, Folger, The promise of mediation 2005.pdf",
       corrupt |-> FALSE, pages |-> <<"Empowerment and recognition.">>],
      [name |-> "broken.pdf", corrupt |-> TRUE, pages |-> <<>>],
      [name |-> "notes.pdf", corrupt |-> FALSE, pages |-> <<"One.", "Two.">>],
      [name |-> "Lederach_The little book_2003.pdf", corrupt |-> FALSE,
       pages |-> <<"Conflict transformation.">>]>>

-----------------------------------------------------------------------------
(* State *)

VARIABLES
    pdf_dir,          \* the source directory: [exists, files]
    batch_size,       \* BatchIndexer.batch_size
    processed_files,  \* BatchIndexer.processed_files
    failed_files,     \* BatchIndexer.failed_files
    vector_db,        \* the records of the vector store, in insertion order
    pc,               \* where index_all_documents stands
    batches,          \* index_all_documents: batches
    i,                \* index_all_documents: number of the current batch
    j,                \* process_batch: position in the current batch
    batch_results,    \* process_batch: batch_results
    total_results,    \* index_all_documents: total_results
    reports,          \* what each call of index_all_documents returned
    calls,            \* calls of index_all_documents so far
    events,           \* the external calls of the current run, in order
    answer,           \* what the last generate_response call did
    call              \* a call of a PDFProcessor or CitationGenerator function

vars == <<pdf_dir, batch_size, processed_files, failed_files, vector_db, pc,
          batches, i, j, batch_results, total_results, reports, calls,
          events, answer, call>>

indexer_vars == <<pdf_dir, batch_size, processed_files, failed_files, pc,
                  batches, i, j, batch_results, total_results, reports,
                  calls, events>>

\* the first n files of the corpus
Listing(n) == SubSeq(Corpus, 1, n)

NoBatchResults == [processed |-> 0, failed |-> 0, total_chunks |-> 0,
                   errors |-> <<>>]

NoTotalResults == [total_processed |-> 0, total_failed |-> 0,
                   total_chunks |-> 0, all_errors |-> <<>>]

NoAnswer == [called |-> FALSE]

NoCall == [fn |-> "none"]

\* BatchIndexer.__init__ over a source directory, and an empty vector store
Init ==
    /\ \E n \in 0..MaxDocs, exists \in BOOLEAN :
          pdf_dir = [exists |-> exists,
                     files |-> IF exists THEN Listing(n) ELSE <<>>]
    /\ batch_size \in 1..MaxBatch
    /\ processed_files = <<>>
    /\ failed_files = <<>>
    /\ vector_db = <<>>
    /\ pc = "idle"
    /\ batches = <<>>
    /\ i = 0
    /\ j = 0
    /\ batch_results = NoBatchResults
    /\ total_results = NoTotalResults
    /\ reports = <<>>
    /\ calls = 0
    /\ events = <<>>
    /\ answer = NoAnswer
    /\ call = NoCall

-----------------------------------------------------------------------------
(* RAGEngine.add_documents_to_vectorstore (src/rag_engine.py) *)

\* Chroma.add_documents(documents) as add_documents_to_vectorstore calls it:
\* no ids are passed, so the store gives every record a fresh id of its own
\* and appends it.
add_documents(store, documents) == store \o documents

\* add_documents_to_vectorstore: [store, ok].  store_raises: the embedding or
\* the store write raises; the exception is caught and False is returned.
add_documents_to_vectorstore(store, documents, store_raises) ==
    IF documents = <<>> THEN [store |-> store, ok |-> TRUE]
    ELSE IF store_raises THEN [store |-> store, ok |-> FALSE]
    ELSE [store |-> add_documents(store, documents), ok |-> TRUE]

-----------------------------------------------------------------------------
(* BatchIndexer (src/batch_indexer.py) *)

\* get_pdf_files: [raised, error, files]
get_pdf_files(dir) ==
    IF ~dir.exists
    THEN [raised |-> TRUE,
          error |-> "Slozka " \o PathStr(PDF_SOURCES_DIR) \o " neexistuje",
          files |-> <<>>]
    ELSE [raised |-> FALSE, error |-> "",
          files |-> [k \in 1..Len(dir.files) |->
                        PathStr(PDF_SOURCES_DIR) \o "/" \o dir.files[k].name]]

\* the file a path names
FileAt(dir, path) ==
    dir.files[CHOOSE k \in 1..Len(dir.files) :
                 dir.files[k].name = basename(path)]

\* mutation of MakeBatches: the slice ends one element late, so consecutive
\* batches share a document
MakeBatches_overlap(pdf_files, size) ==
    [k \in 1..((Len(pdf_files) + size - 1) \div size) |->
        SubSeq(pdf_files, (k - 1) * size + 1,
               IF k * size + 1 < Len(pdf_files) THEN k * size + 1
               ELSE Len(pdf_files))]

\* [pdf_files[i:i + batch_size] for i in range(0, len(pdf_files), batch_size)]
MakeBatches(pdf_files, size) ==
    [k \in 1..((Len(pdf_files) + size - 1) \div size) |->
        SubSeq(pdf_files, (k - 1) * size + 1,
               IF k * size < Len(pdf_files) THEN k * size ELSE Len(pdf_files))]

\* the Document process_batch builds from a chunk
BatchDocument(chunk) ==
    [page_content |-> chunk.text,
     metadata |-> [id |-> chunk.id,
                   filename |-> chunk.metadata.filename,
                   author |-> chunk.metadata.author,
                   title |-> chunk.metadata.title,
                   year |-> chunk.metadata.year,
                   chunk_index |-> chunk.chunk_index]]

BatchDocuments(chunks) == [k \in 1..Len(chunks) |-> BatchDocument(chunks[k])]

\* mutation of FailureReport: the error message is lost
FailureReport_silent(error) ==
    [success |-> FALSE, error |-> "", total_processed |-> 0,
     total_failed |-> 0, total_chunks |-> 0]

\* the early returns of index_all_documents
FailureReport(error) ==
    [success |-> FALSE, error |-> error, total_processed |-> 0,
     total_failed |-> 0, total_chunks |-> 0]

\* the final report of index_all_documents
FinalReport(totals, processed, failed) ==
    [success |-> totals.total_processed > 0,
     total_processed |-> totals.total_processed,
     total_failed |-> totals.total_failed,
     total_chunks |-> totals.total_chunks,
     errors |-> totals.all_errors,
     processed_files |-> processed,
     failed_files |-> failed]

Event(op, file, batch, ok) ==
    [op |-> op, file |-> file, batch |-> batch, ok |-> ok]

\* index_all_documents up to the batch loop
IndexStart ==
    /\ pc \in {"idle", "returned"}
    /\ calls < MaxCalls
    /\ calls' = calls + 1
    /\ events' = <<>>
    /\ LET got == get_pdf_files(pdf_dir)
       IN  IF got.raised
           THEN /\ reports' = Append(reports, FailureReport(got.error))
                /\ pc' = "returned"
                /\ UNCHANGED <<batches, i, j, batch_results, total_results>>
           ELSE IF got.files = <<>>
           THEN /\ reports' = Append(reports,
                       FailureReport("Nebyly nalezeny zadne PDF soubory"))
                /\ pc' = "returned"
                /\ UNCHANGED <<batches, i, j, batch_results, total_results>>
           ELSE /\ batches' = MakeBatches(got.files, batch_size)
                /\ total_results' = NoTotalResults
                /\ i' = 1
                /\ j' = 1
                /\ batch_results' = NoBatchResults
                /\ pc' = "batch"
                /\ UNCHANGED reports
    /\ UNCHANGED <<pdf_dir, batch_size, processed_files, failed_files,
                   vector_db, answer, call>>

\* what can go wrong while process_batch handles one document with text:
\* nothing, a step before the store write raises, the store write raises
Faults == {"none", "raise", "store"}

\* the error message process_batch records
ErrorMsg(pdf_file, e) ==
    "Chyba pri zpracovani " \o basename(pdf_file) \o ": " \o e

\* process_batch: one iteration of the loop over the batch's documents
ProcessDocument ==
    /\ pc = "batch"
    /\ j <= Len(batches[i])
    /\ LET pdf_file == batches[i][j]
           pdf == FileAt(pdf_dir, pdf_file)
           tm == extract_text_and_metadata(pdf_file, pdf)
           chunks == chunk_text(tm.text, tm.metadata)
           extract == Event("extract", pdf_file, i, ~pdf.corrupt)
       IN  IF Strip(tm.text) = ""
           THEN /\ batch_results' =
                       [batch_results EXCEPT !.failed = @ + 1]
                /\ failed_files' = Append(failed_files, pdf_file)
                /\ events' = Append(events, extract)
                /\ UNCHANGED <<processed_files, vector_db>>
           ELSE \E fault \in Faults :
                IF fault = "raise"
                THEN /\ batch_results' =
                            [batch_results EXCEPT
                                !.errors = Append(@, ErrorMsg(pdf_file,
                                                              "MemoryError")),
                                !.failed = @ + 1]
                     /\ failed_files' = Append(failed_files, pdf_file)
                     /\ events' = events \o
                            <<extract, Event("raise", pdf_file, i, FALSE)>>
                     /\ UNCHANGED <<processed_files, vector_db>>
                ELSE IF chunks # <<>>
                THEN LET added == add_documents_to_vectorstore(
                                      vector_db, BatchDocuments(chunks),
                                      fault = "store")
                     IN  /\ vector_db' = added.store
                         /\ batch_results' =
                                [batch_results EXCEPT
                                    !.total_chunks = @ + Len(chunks),
                                    !.processed = @ + 1]
                         /\ processed_files' =
                                Append(processed_files, pdf_file)
                         /\ events' = events \o
                                <<extract,
                                  Event("add_documents", pdf_file, i,
                                        fault # "store")>>
                         /\ UNCHANGED failed_files
                ELSE /\ events' = Append(events, extract)
                     /\ UNCHANGED <<batch_results, processed_files,
                                    failed_files, vector_db>>
    /\ j' = j + 1
    /\ UNCHANGED <<pdf_dir, batch_size, pc, batches, i, total_results,
                   reports, calls, answer, call>>

\* mutation of PauseAfter: the last batch is followed by a pause too
PauseAfter_every(k, n) == k <= n

\* "if i < len(batches)": a pause follows batch number k of n
PauseAfter(k, n) == k < n

\* process_batch returns: index_all_documents adds the batch to the totals
\* and, unless it was the last batch, starts the pause
EndBatch ==
    /\ pc = "batch"
    /\ j > Len(batches[i])
    /\ total_results' =
          [total_processed |-> total_results.total_processed
                               + batch_results.processed,
           total_failed |-> total_results.total_failed + batch_results.failed,
           total_chunks |-> total_results.total_chunks
                            + batch_results.total_chunks,
           all_errors |-> total_results.all_errors \o batch_results.errors]
    /\ IF PauseAfter(i, Len(batches))
       THEN /\ pc' = "sleep"
            /\ events' = Append(events, Event("sleep", "", i, TRUE))
       ELSE /\ pc' = "final"
            /\ UNCHANGED events
    /\ UNCHANGED <<pdf_dir, batch_size, processed_files, failed_files,
                   vector_db, batches, i, j, batch_results, reports, calls,
                   answer, call>>

\* time.sleep(delay_between_batches) returns: the next batch starts
Sleep ==
    /\ pc = "sleep"
    /\ i' = i + 1
    /\ j' = 1
    /\ batch_results' = NoBatchResults
    /\ pc' = "batch"
    /\ UNCHANGED <<pdf_dir, batch_size, processed_files, failed_files,
                   vector_db, batches, total_results, reports, calls, events,
                   answer, call>>

\* index_all_documents after the batch loop: the final report
IndexReturn ==
    /\ pc = "final"
    /\ reports' = Append(reports,
                         FinalReport(total_results, processed_files,
                                     failed_files))
    /\ pc' = "returned"
    /\ UNCHANGED <<pdf_dir, batch_size, processed_files, failed_files,
                   vector_db, batches, i, j, batch_results, total_results,
                   calls, events, answer, call>>

Next == IndexStart \/ ProcessDocument \/ EndBatch \/ Sleep \/ IndexReturn

Spec == Init /\ [][Next]_vars

-----------------------------------------------------------------------------
(* RAGEngine (src/rag_engine.py): answering a query *)

\* the response of the no-match path
NoMatchResponse ==
    "Omlouvam se, ale nenasel jsem relevantni informace v dostupnych dokumentech o transformativnim pristupu ke konfliktum."

Queries == {"Co je transformativni mediace?"}

\* the texts the generation service answers with
Completions == {"Transformativni mediace je pristup.", "Nevim."}

\* the messages of the exceptions the generation service raises
ServiceErrors == {"Connection error.", ""}

\* the rankings vector_db.similarity_search(query, k) may return over a
\* store of n records: the k nearest (all n when n < k), in an order the
\* store's metric decides
Rankings(n, k) ==
    LET m == IF n < k THEN n ELSE k
    IN  {r \in [1..m -> 1..n] : \A a, b \in 1..m : a # b => r[a] # r[b]}

\* what the collaborators do during one generate_response call:
\* search = [raised, ranking], llm = [raised, error, content]
SearchOutcomes(n) ==
    {[raised |-> TRUE, ranking |-> <<>>]}
    \cup {[raised |-> FALSE, ranking |-> r] : r \in Rankings(n, TOP_K_RESULTS)}

LlmOutcomes ==
    {[raised |-> TRUE, error |-> e, content |-> ""] : e \in ServiceErrors}
    \cup {[raised |-> FALSE, error |-> "", content |-> c] : c \in Completions}

\* search_relevant_documents: an exception of the search is caught and
\* turned into the empty list
search_relevant_documents(store, search) ==
    IF search.raised THEN <<>>
    ELSE [r \in 1..Len(search.ranking) |-> store[search.ranking[r]]]

\* the context section generate_response builds for one retrieved record
ContextPart(doc) ==
    "Zdroj: " \o Get(doc.metadata, "title", "Neznamy") \o " ("
    \o Get(doc.metadata, "author", "Neznamy autor") \o ")\n"
    \o doc.page_content

ContextParts(docs) == [k \in 1..Len(docs) |-> ContextPart(docs[k])]

\* mutation of UsedSources: a file retrieved twice is listed once
UsedSources_unique(docs) ==
    UniqueSources([k \in 1..Len(docs) |-> docs[k].metadata], {})

\* used_sources of generate_response: the metadata of each retrieved record
UsedSources(docs) == [k \in 1..Len(docs) |-> docs[k].metadata]

\* mutation of no_relevant_docs: the check for an empty retrieval is missing
no_relevant_docs_never(relevant_docs) == FALSE

\* "if not relevant_docs"
no_relevant_docs(relevant_docs) == relevant_docs = <<>>

\* mutation of CitationsStep: the formatter's exception is not caught here
CitationsStep_uncaught(used_sources) ==
    [raised |-> format_citations_raises(used_sources),
     text |-> IF format_citations_raises(used_sources) THEN ""
              ELSE format_citations_for_response(used_sources)]

\* the citations step of generate_response, [raised, text]: a failure of
\* the formatter is caught and the citations become the empty string
CitationsStep(used_sources) ==
    [raised |-> FALSE,
     text |-> IF format_citations_raises(used_sources) THEN ""
              ELSE format_citations_for_response(used_sources)]

\* the body of the try block of generate_response:
\* [raised, error, result, search_calls, llm_calls, context]
ResponseBody(store, query, search, llm) ==
    LET relevant_docs == search_relevant_documents(store, search)
        used_sources == UsedSources(relevant_docs)
        context == Join(ContextParts(relevant_docs), "\n\n---\n\n")
        cited == CitationsStep(used_sources)
    IN  IF no_relevant_docs(relevant_docs)
        THEN [raised |-> FALSE, error |-> "",
              result |-> [response |-> NoMatchResponse, sources |-> <<>>,
                          citations |-> ""],
              search_calls |-> 1, llm_calls |-> 0, context |-> ""]
        ELSE IF llm.raised
        THEN [raised |-> TRUE, error |-> llm.error,
              result |-> [response |-> "", sources |-> <<>>,
                          citations |-> ""],
              search_calls |-> 1, llm_calls |-> 1, context |-> context]
        ELSE IF cited.raised
        THEN [raised |-> TRUE, error |-> "AttributeError",
              result |-> [response |-> "", sources |-> <<>>,
                          citations |-> ""],
              search_calls |-> 1, llm_calls |-> 1, context |-> context]
        ELSE [raised |-> FALSE, error |-> "",
              result |-> [response |-> llm.content,
                          sources |-> used_sources,
                          citations |-> cited.text,
                          num_sources |-> Len(used_sources)],
              search_calls |-> 1, llm_calls |-> 1, context |-> context]

\* mutation of ErrorResult: the response is the exception's message alone
ErrorResult_bare(body) ==
    [body EXCEPT !.raised = FALSE,
                 !.result = [response |-> body.error,
                             sources |-> <<>>, citations |-> ""]]

\* the except handler of generate_response
ErrorResult(body) ==
    [body EXCEPT !.raised = FALSE,
                 !.result = [response |-> "Chyba pri generovani odpovedi: "
                                          \o body.error,
                             sources |-> <<>>, citations |-> ""]]

\* generate_response: what the call did and returned
generate_response(store, query, search, llm) ==
    LET body == ResponseBody(store, query, search, llm)
    IN  IF body.raised THEN ErrorResult(body) ELSE body

\* one call of generate_response (execution is synchronous: the caller has
\* taken the previous result)
GenerateResponse ==
    /\ ~answer.called
    /\ \E query \in Queries, search \in SearchOutcomes(Len(vector_db)),
          llm \in LlmOutcomes :
          answer' = [called |-> TRUE, query |-> query, search |-> search,
                     llm |-> llm,
                     out |-> generate_response(vector_db, query, search, llm)]
    /\ UNCHANGED <<indexer_vars, vector_db, call>>

\* A record another writer left in the persisted store: its author is no str.
ForeignRecord ==
    [page_content |-> "Mediation notes.",
     metadata |-> [filename |-> "import.csv", author |-> "<int>",
                   title |-> "Mediation notes"]]

\* the records process_batch writes for corpus file k
CorpusRecords(k) ==
    LET path == PathStr(PDF_SOURCES_DIR) \o "/" \o Corpus[k].name
        tm == extract_text_and_metadata(path, Corpus[k])
    IN  BatchDocuments(chunk_text(tm.text, tm.metadata))

\* the records a store may hold when a query arrives
RecordPool ==
    {CorpusRecords(1)[1], CorpusRecords(1)[2], CorpusRecords(3)[1],
     ForeignRecord}

\* the stores a query runs against: up to MaxStore records of the pool, a
\* record possibly more than once
Stores == UNION {[1..n -> RecordPool] : n \in 0..MaxStore}

InitQuery ==
    /\ pdf_dir = [exists |-> TRUE, files |-> <<>>]
    /\ batch_size = 1
    /\ processed_files = <<>>
    /\ failed_files = <<>>
    /\ vector_db \in Stores
    /\ pc = "idle"
    /\ batches = <<>>
    /\ i = 0
    /\ j = 0
    /\ batch_results = NoBatchResults
    /\ total_results = NoTotalResults
    /\ reports = <<>>
    /\ calls = 0
    /\ events = <<>>
    /\ answer = NoAnswer
    /\ call = NoCall

\* the caller of generate_response takes the result
QueryDone ==
    /\ answer.called
    /\ answer' = NoAnswer
    /\ UNCHANGED <<indexer_vars, vector_db, call>>

NextQuery == GenerateResponse \/ QueryDone

SpecQuery == InitQuery /\ [][NextQuery]_vars

-----------------------------------------------------------------------------
(* Calls of single functions: the input is fixed by the initial state and
   the action applies the function to it *)

\* no indexing run and no query is under way
Standby ==
    /\ pdf_dir = [exists |-> TRUE, files |-> <<>>]
    /\ batch_size = 1
    /\ processed_files = <<>>
    /\ failed_files = <<>>
    /\ vector_db = <<>>
    /\ pc = "idle"
    /\ batches = <<>>
    /\ i = 0
    /\ j = 0
    /\ batch_results = NoBatchResults
    /\ total_results = NoTotalResults
    /\ reports = <<>>
    /\ calls = 0
    /\ events = <<>>
    /\ answer = NoAnswer

(* PDFProcessor.chunk_text *)

\* the longest text has MaxParas paragraphs
MaxParas == 3

\* the sizes a PDFProcessor is built with: those of Config and smaller ones
ChunkConfigs ==
    {ProcessorConfig,
     [chunk_size |-> 8, chunk_overlap |-> 3],
     [chunk_size |-> 6, chunk_overlap |-> 0]}

\* paragraphs around the sizes of cfg: a short one, half a chunk, one word
\* followed by a second word of chunk_overlap - 1 letters, one character less
\* than a chunk, and more than a chunk
ParagraphPool(cfg) ==
    {"a",
     Rep("b", cfg.chunk_size \div 2),
     Rep("c", cfg.chunk_size \div 2) \o " "
         \o Rep("c", Max({cfg.chunk_overlap - 1, 1})),
     Rep("d", cfg.chunk_size - 1),
     Rep("e", cfg.chunk_size + 1)}

\* the document texts: up to MaxParas paragraphs separated by blank lines
Texts(cfg) ==
    {Join(ps, "\n\n") :
        ps \in UNION {[1..n -> ParagraphPool(cfg)] : n \in 0..MaxParas}}

\* the document metadata chunk_text is given
ChunkMetadata ==
    {extract_metadata_from_filename(f) :
        f \in {"notes.pdf", "Lederach_The little book_2003.pdf"}}

InitChunk ==
    /\ Standby
    /\ \E cfg \in ChunkConfigs :
       \E text \in Texts(cfg), metadata \in ChunkMetadata :
          call = [fn |-> "chunk_text", done |-> FALSE, cfg |-> cfg,
                  text |-> text, metadata |-> metadata]

\* processor.chunk_text(text, metadata) on a processor built with call.cfg
ChunkText ==
    /\ call.fn = "chunk_text"
    /\ ~call.done
    /\ call' = [fn |-> "chunk_text", done |-> TRUE, cfg |-> call.cfg,
                text |-> call.text, metadata |-> call.metadata,
                out |-> chunk_text_with(call.text, call.metadata, call.cfg)]
    /\ UNCHANGED <<indexer_vars, vector_db, answer>>

NextChunk == ChunkText

SpecChunk == InitChunk /\ [][NextChunk]_vars

(* PDFProcessor.extract_metadata_from_filename *)

\* author parts of file names: one to four words
AuthorNames == {"Smith", "Bush Folger", "Fisher Ury Patton", "Van der Merwe H"}

\* title parts of file names
TitleTexts ==
    {"Conflict Transformation", "The little book", "Getting_to_yes",
     "Folger, The promise of mediation"}

\* year parts of file names: inside and outside 1900-2099
YearTexts == {"1900", "2010", "2099", "1850"}

\* the file names given to extract_metadata_from_filename, with the parts
\* they are made of: "<author>_<title>_<year>.pdf" and
\* "<author>, <title> <year>.pdf"
FilenameForms ==
    {[kind |-> "underscore", author |-> a, title |-> t, year |-> y,
      filename |-> a \o "_" \o t \o "_" \o y \o ".pdf"] :
        a \in AuthorNames, t \in TitleTexts, y \in YearTexts}
    \cup
    {[kind |-> "comma", author |-> a, title |-> t, year |-> y,
      filename |-> a \o ", " \o t \o " " \o y \o ".pdf"] :
        a \in AuthorNames,
        t \in {x \in TitleTexts : ~Contains(x, "_")},
        y \in YearTexts}

InitMeta ==
    /\ Standby
    /\ \E form \in FilenameForms :
          call = [fn |-> "extract_metadata_from_filename", done |-> FALSE,
                  form |-> form]

\* processor.extract_metadata_from_filename(filename)
ExtractMetadata ==
    /\ call.fn = "extract_metadata_from_filename"
    /\ ~call.done
    /\ call' = [fn |-> "extract_metadata_from_filename", done |-> TRUE,
                form |-> call.form,
                out |-> extract_metadata_from_filename(call.form.filename)]
    /\ UNCHANGED <<indexer_vars, vector_db, answer>>

NextMeta == ExtractMetadata

SpecMeta == InitMeta /\ [][NextMeta]_vars

(* CitationGenerator.format_citations_for_response *)

\* the longest list of sources has MaxSources entries
MaxSources == 3

\* source metadata as the engine passes it: two chunks of X.pdf, a record of
\* X.pdf carrying another author, a chunk of Y.pdf, and one without filename
SourcePool ==
    {[filename |-> "X.pdf", author |-> "Smith",
      title |-> "conflict transformation", year |-> "2010", chunk_index |-> 0],
     [filename |-> "X.pdf", author |-> "Smith",
      title |-> "conflict transformation", year |-> "2010", chunk_index |-> 1],
     [filename |-> "X.pdf", author |-> "Jones",
      title |-> "conflict transformation", year |-> "2010", chunk_index |-> 2],
     [filename |-> "Y.pdf", author |-> "Bush, Folger",
      title |-> "the promise of mediation", year |-> "2005", chunk_index |-> 0],
     [author |-> "Unknown", title |-> "notes"]}

SourceLists == UNION {[1..n -> SourcePool] : n \in 0..MaxSources}

InitCite ==
    /\ Standby
    /\ \E used_sources \in SourceLists :
          call = [fn |-> "format_citations_for_response", done |-> FALSE,
                  used_sources |-> used_sources]

\* citation_generator.format_citations_for_response(used_sources)
FormatCitations ==
    /\ call.fn = "format_citations_for_response"
    /\ ~call.done
    /\ call' = [fn |-> "format_citations_for_response", done |-> TRUE,
                used_sources |-> call.used_sources,
                out |-> format_citations_for_response(call.used_sources)]
    /\ UNCHANGED <<indexer_vars, vector_db, answer>>

NextCite == FormatCitations

SpecCite == InitCite /\ [][NextCite]_vars

-----------------------------------------------------------------------------
(* Properties of the batch ingestion (checked under Spec) *)

\* index_all_documents has returned
Returned == pc = "returned"

\* the report of the last call
LastReport == reports[Len(reports)]

\* the paths the current call works on
RunFiles == get_pdf_files(pdf_dir).files

\* the last call went through the batch loop and returned its final report
RanBatches == Returned /\ pdf_dir.exists /\ pdf_dir.files # <<>>

\* the current call is in, or has been through, the batch loop
InBatches == pc \in {"batch", "sleep", "final"} \/ RanBatches

InSeq(x, seq) == \E k \in 1..Len(seq) : seq[k] = x

\* the store accepted the records of this file during the current call
Indexed(path) ==
    \E k \in 1..Len(events) :
        /\ events[k].op = "add_documents"
        /\ events[k].file = path
        /\ events[k].ok

\* the report's error list has an entry for this file
ErrorRecorded(path) ==
    \E m \in 1..Len(LastReport.errors) :
        Contains(LastReport.errors[m], basename(path))

\* the text extracted from this file is empty or whitespace only
EmptyText(path) ==
    Strip(extract_text_from_pdf(FileAt(pdf_dir, path))) = ""

\* an error was raised while this event's document was processed
Raised(e) == e.op \in {"extract", "raise", "add_documents"} /\ ~e.ok

RECURSIVE Flatten(_)
Flatten(bs) == IF bs = <<>> THEN <<>> ELSE Head(bs) \o Flatten(Tail(bs))

\* positions of the pauses among the events of the current call
Sleeps == {k \in 1..Len(events) : events[k].op = "sleep"}

\* C1: index_all_documents reports success = true exactly when
\* total_processed > 0, and a run in which every document fails, whatever
\* the cause (no record of it reached the store), reports success = false.
C1_SuccessIffProcessed ==
    Returned =>
        /\ LastReport.success <=> (LastReport.total_processed > 0)
        /\ (\A d \in 1..Len(RunFiles) : ~Indexed(RunFiles[d]))
              => ~LastReport.success

\* C2: n >= 1 paths and batch_size b >= 1 give ceil(n/b) consecutive batches
\* whose concatenation is the list in order, each of exactly b documents
\* except possibly the last, and the final report has
\* total_processed + total_failed = n.
C2_BatchesPartition ==
    /\ InBatches =>
          LET n == Len(RunFiles)
              B == Len(batches)
          IN  /\ n >= 1
              /\ B * batch_size >= n
              /\ (B - 1) * batch_size < n
              /\ Flatten(batches) = RunFiles
              /\ \A k \in 1..(B - 1) : Len(batches[k]) = batch_size
              /\ Len(batches[B]) \in 1..batch_size
    /\ RanBatches =>
          LastReport.total_processed + LastReport.total_failed
             = Len(RunFiles)

\* a run over 3 documents with batch_size 2 has returned: batches of 2 and 1
C2_Witness ==
    /\ RanBatches
    /\ Len(RunFiles) = 3
    /\ batch_size = 2
    /\ Len(batches) = 2
    /\ Len(batches[1]) = 2
    /\ Len(batches[2]) = 1
    /\ LastReport.total_processed + LastReport.total_failed = 3

\* C3: re-running the ingestion over the same documents leaves the store
\* with the records of a single run: no chunk id is stored twice.
C3_ReindexIdempotent ==
    \A a, b \in 1..Len(vector_db) :
        a # b => vector_db[a].metadata.id # vector_db[b].metadata.id

\* C4: over B batches the pause happens exactly B - 1 times: once after
\* batch k is completely processed and before batch k + 1 starts, for every
\* k < B, and never after the last batch.
C4_PauseBetweenBatches ==
    InBatches =>
        /\ {events[k].batch : k \in Sleeps}
              = 1..(IF pc = "sleep" THEN i ELSE i - 1)
        /\ Cardinality(Sleeps) = (IF pc = "sleep" THEN i ELSE i - 1)
        /\ pc \in {"final", "returned"} =>
              Cardinality(Sleeps) = Len(batches) - 1
        /\ \A k \in Sleeps :
              /\ events[k].batch < Len(batches)
              /\ \A m \in 1..(k - 1) : events[m].batch <= events[k].batch
              /\ \A m \in (k + 1)..Len(events) :
                    events[m].batch > events[k].batch
              /\ \A d \in 1..Len(batches[events[k].batch]) :
                    \E m \in 1..(k - 1) :
                        /\ events[m].op = "extract"
                        /\ events[m].file = batches[events[k].batch][d]

\* a run over three batches has returned after two pauses
C4_Witness ==
    /\ RanBatches
    /\ Len(batches) = 3
    /\ Cardinality(Sleeps) = 2

\* C5: with the source directory missing or holding no PDF, the call
\* returns (does not raise) a failure report: success = false, an error
\* message, all totals 0; no document is processed, nothing is stored.
C5_MissingOrEmptyDirectory ==
    Returned /\ (~pdf_dir.exists \/ pdf_dir.files = <<>>) =>
        /\ Len(reports) = calls
        /\ LastReport.success = FALSE
        /\ "error" \in DOMAIN LastReport
        /\ LastReport.error # ""
        /\ LastReport.total_processed = 0
        /\ LastReport.total_failed = 0
        /\ LastReport.total_chunks = 0
        /\ events = <<>>
        /\ vector_db = <<>>
        /\ processed_files = <<>>
        /\ failed_files = <<>>

\* a call on a missing source directory has returned its failure report
C5_Witness ==
    /\ Returned
    /\ ~pdf_dir.exists
    /\ LastReport.success = FALSE
    /\ LastReport.error # ""

\* C6: an error raised while one document is processed is caught, the
\* document is counted as failed with an error message recorded, and every
\* other document of the run is still processed.
C6_DocumentErrorIsolated ==
    RanBatches =>
        /\ \A k \in 1..Len(events) :
              Raised(events[k]) =>
                  /\ InSeq(events[k].file, failed_files)
                  /\ ErrorRecorded(events[k].file)
        /\ \A d \in 1..Len(RunFiles) :
              \E k \in 1..Len(events) :
                  /\ events[k].op = "extract"
                  /\ events[k].file = RunFiles[d]

\* C7: a document whose extracted text is empty is counted as failed and
\* the report's error list has an entry for it, so every document counted
\* in total_failed has a recorded reason.
C7_EmptyTextReasonRecorded ==
    RanBatches =>
        /\ \A d \in 1..Len(RunFiles) :
              EmptyText(RunFiles[d]) =>
                  /\ InSeq(RunFiles[d], failed_files)
                  /\ ErrorRecorded(RunFiles[d])
        /\ Len(LastReport.errors) >= LastReport.total_failed

-----------------------------------------------------------------------------
(* Properties of generate_response (checked under SpecQuery) *)

\* the number of records the retrieval of the last call returned
RetrievedCount ==
    IF answer.search.raised THEN 0 ELSE Len(answer.search.ranking)

\* the metadata of the records the store ranked, in ranking order
RankedSources ==
    [k \in 1..Len(answer.search.ranking) |->
        vector_db[answer.search.ranking[k]].metadata]

\* C8: when retrieval returns zero records, generate_response returns the
\* fixed no-match message with sources = [] and citations = '', raises
\* nothing and does not call the generation service.
C8_NoMatch ==
    answer.called /\ RetrievedCount = 0 =>
        /\ ~answer.out.raised
        /\ answer.out.result
              = [response |-> NoMatchResponse, sources |-> <<>>,
                 citations |-> ""]
        /\ answer.out.llm_calls = 0

\* a query against an empty store was answered with the no-match message
C8_Witness ==
    /\ answer.called
    /\ vector_db = <<>>
    /\ ~answer.search.raised
    /\ answer.out.result.response = NoMatchResponse
    /\ answer.out.llm_calls = 0

\* C9: when the generation service fails after a non-empty retrieval,
\* generate_response does not raise: its response is a non-empty error
\* explanation and its sources and citations are empty.
C9_GenerationFailure ==
    answer.called /\ RetrievedCount > 0 /\ answer.llm.raised =>
        /\ ~answer.out.raised
        /\ answer.out.result.response # ""
        /\ Contains(answer.out.result.response, answer.llm.error)
        /\ answer.out.result.sources = <<>>
        /\ answer.out.result.citations = ""

\* the generation service failed with an empty message after a retrieval
\* of two records, and an error response came back
C9_Witness ==
    /\ answer.called
    /\ RetrievedCount = 2
    /\ answer.llm.raised
    /\ answer.llm.error = ""
    /\ ~answer.out.raised
    /\ answer.out.result.response # ""

\* C10: when citation formatting fails after a successful completion,
\* generate_response still returns the generated text and the full sources
\* list, with citations the empty string; no error response results.
C10_CitationFailureDegrades ==
    /\ answer.called
    /\ RetrievedCount > 0
    /\ ~answer.llm.raised
    /\ format_citations_raises(RankedSources)
    => /\ ~answer.out.raised
       /\ answer.out.result.response = answer.llm.content
       /\ answer.out.result.sources = RankedSources
       /\ answer.out.result.citations = ""

\* the formatter failed on a retrieved record whose author is no string,
\* and the answer kept the completion and both sources
C10_Witness ==
    /\ answer.called
    /\ RetrievedCount = 2
    /\ ~answer.llm.raised
    /\ format_citations_raises(RankedSources)
    /\ answer.out.result.response = answer.llm.content
    /\ Len(answer.out.result.sources) = 2
    /\ answer.out.result.citations = ""

-----------------------------------------------------------------------------
(* Properties of chunk_text (checked under SpecChunk) *)

\* chunk_text has returned
Chunked == call.fn = "chunk_text" /\ call.done

\* the buffers the returned chunks were emitted from
ClosedBuffers == ChunkTrace(call.text, call.metadata, call.cfg).buffers

\* p is the beginning of s
IsPrefix(p, s) == Len(p) <= Len(s) /\ SubSeq(s, 1, Len(p)) = p

\* the last n characters of s (all of s when it is shorter)
Suffix(s, n) == SubSeq(s, Max({1, Len(s) - n + 1}), Len(s))

\* s without its leading whitespace
LStrip(s) ==
    IF \A k \in 1..Len(s) : Ch(s, k) \in Whitespace THEN ""
    ELSE SubSeq(s, CHOOSE k \in 1..Len(s) :
                      /\ Ch(s, k) \notin Whitespace
                      /\ \A m \in 1..(k - 1) : Ch(s, m) \in Whitespace,
                Len(s))

\* C11: with chunk_overlap < chunk_size, every chunk chunk_text emits is at
\* most chunk_size characters long, unless the chunk is one single paragraph
\* that is itself longer than chunk_size.
C11_ChunkWithinSize ==
    Chunked /\ call.cfg.chunk_overlap < call.cfg.chunk_size =>
        \A k \in 1..Len(call.out) :
            \/ Len(call.out[k].text) <= call.cfg.chunk_size
            \/ /\ InSeq(call.out[k].text, Paragraphs(call.text))
               /\ Len(call.out[k].text) > call.cfg.chunk_size

\* C12 as stated: every chunk after the first begins with the last
\* chunk_overlap characters of the buffer the previous chunk was emitted from.
C12_OverlapPrefix ==
    Chunked =>
        \A n \in 1..(Len(call.out) - 1) :
            IsPrefix(Suffix(ClosedBuffers[n], call.cfg.chunk_overlap),
                     call.out[n + 1].text)

\* C12: every chunk after the first begins with the last chunk_overlap
\* characters of the buffer the previous chunk was emitted from, less the
\* whitespace those characters begin with (the chunk text is stripped).
C12_OverlapPrefixStripped ==
    Chunked =>
        \A n \in 1..(Len(call.out) - 1) :
            IsPrefix(LStrip(Suffix(ClosedBuffers[n], call.cfg.chunk_overlap)),
                     call.out[n + 1].text)

\* chunk_text with the sizes of Config returned two chunks, the overlap taken
\* from the first buffer begins with a space, and the second chunk begins with
\* the 99 letters that follow it
C12_Witness ==
    /\ Chunked
    /\ call.cfg = ProcessorConfig
    /\ Len(call.out) = 2
    /\ Ch(Suffix(ClosedBuffers[1], CHUNK_OVERLAP), 1) = " "
    /\ IsPrefix(Rep("c", CHUNK_OVERLAP - 1) \o "\n\n", call.out[2].text)

\* C13: the chunks of one document carry chunk_index 0, 1, ..., n-1 in list
\* order, and the chunk at index i has the id "<filename>_chunk_<i>".
C13_ChunkIdsContiguous ==
    Chunked =>
        \A k \in 1..Len(call.out) :
            /\ call.out[k].chunk_index = k - 1
            /\ call.out[k].id =
                  call.metadata.filename \o "_chunk_" \o Ch("0123456789", k)

\* chunk_text returned three chunks, the last one with index 2 and the id
\* built from the file name
C13_Witness ==
    /\ Chunked
    /\ Len(call.out) = 3
    /\ call.metadata.filename = "notes.pdf"
    /\ call.out[3].chunk_index = 2
    /\ call.out[3].id = "notes.pdf_chunk_2"

-----------------------------------------------------------------------------
(* Properties of extract_metadata_from_filename (checked under SpecMeta) *)

\* extract_metadata_from_filename has returned
Extracted == call.fn = "extract_metadata_from_filename" /\ call.done

\* the years 1900-2099 among the year parts
ValidYears == {y \in YearTexts : SubSeq(y, 1, 2) \in {"19", "20"}}

\* C14: on a name "<author>_<title>_<YYYY>.pdf" whose author has at most 3
\* words and whose YYYY is in 1900-2099, extract_metadata_from_filename
\* returns author = <author>, title = the remaining segments joined by spaces
\* (ending in YYYY) and year = YYYY.
C14_UnderscoreForm ==
    /\ Extracted
    /\ call.form.kind = "underscore"
    /\ Len(Words(call.form.author)) <= 3
    /\ call.form.year \in ValidYears
    => /\ call.out.author = call.form.author
       /\ call.out.title =
             Join(Split(call.form.title, "_"), " ") \o " " \o call.form.year
       /\ call.out.year = call.form.year

\* the name extract_metadata_from_filename works on: the extension removed
StrippedName == Replace(call.form.filename, ".pdf", "")

\* the position of the first comma of the name
FirstComma == Min(Occurrences(StrippedName, ","))

\* C21: for a name that contains a comma and no underscore,
\* extract_metadata_from_filename splits on the first comma only: author is
\* the part before the first comma and title is the whole trimmed remainder
\* after it, later commas included.
C21_SplitOnFirstComma ==
    /\ Extracted
    /\ Contains(StrippedName, ",")
    /\ ~Contains(StrippedName, "_")
    => /\ call.out.author = Strip(SubSeq(StrippedName, 1, FirstComma - 1))
       /\ call.out.title =
             Strip(SubSeq(StrippedName, FirstComma + 1, Len(StrippedName)))

-----------------------------------------------------------------------------
(* Properties of format_citations_for_response (checked under SpecCite) *)

\* format_citations_for_response has returned
Formatted == call.fn = "format_citations_for_response" /\ call.done

\* the filename a source is filed under
FilenameOf(source) == Get(source, "filename", "Unknown")

\* the positions in the input at which a filename appears for the first time
FirstAppearances ==
    {k \in 1..Len(call.used_sources) :
        \A m \in 1..(k - 1) :
            FilenameOf(call.used_sources[m]) # FilenameOf(call.used_sources[k])}

\* the elements of a sequence
Range(seq) == {seq[k] : k \in 1..Len(seq)}

\* the k-th smallest element of a set of numbers
Nth(S, k) == CHOOSE x \in S : Cardinality({y \in S : y <= x}) = k

\* the numbered lines of the returned text: what follows the heading
Entries ==
    LET lines == Split(call.out, "\n")
    IN  SubSeq(lines, 4, Len(lines) - 1)

\* C15: format_citations_for_response emits exactly one numbered entry per
\* distinct filename, numbered 1..m without gaps, in the order in which each
\* filename first appears in the input; the empty input yields the empty
\* string.
C15_OneEntryPerFilename ==
    Formatted =>
        IF call.used_sources = <<>> THEN call.out = ""
        ELSE /\ IsPrefix("\n\n**Pouzite zdroje:**\n", call.out)
             /\ Len(Entries) = Cardinality(FirstAppearances)
             /\ \A k \in 1..Len(Entries) :
                   /\ IsPrefix(Ch("123456789", k) \o ". ", Entries[k])
                   /\ \E source \in Range(call.used_sources) :
                         /\ FilenameOf(source) =
                               FilenameOf(call.used_sources[
                                              Nth(FirstAppearances, k)])
                         /\ Entries[k] = Ch("123456789", k) \o ". "
                               \o generate_reference_citation(source)

\* two chunks of X.pdf around a chunk of Y.pdf were formatted into two
\* entries, X.pdf's first
C15_Witness ==
    /\ Formatted
    /\ Len(call.used_sources) = 3
    /\ FilenameOf(call.used_sources[1]) = "X.pdf"
    /\ FilenameOf(call.used_sources[2]) = "Y.pdf"
    /\ FilenameOf(call.used_sources[3]) = "X.pdf"
    /\ Len(Entries) = 2
    /\ IsPrefix("1. Smith", Entries[1])
    /\ IsPrefix("2. Bush", Entries[2])

-----------------------------------------------------------------------------
(* Further properties of generate_response (checked under SpecQuery) *)

\* generate_response went through retrieval and generation and returned the
\* completion
Succeeded ==
    /\ answer.called
    /\ RetrievedCount > 0
    /\ ~answer.llm.raised
    /\ ~answer.out.raised

\* the sections of the retrieved records in the order the store ranked them
RankedSections ==
    [k \in 1..RetrievedCount |->
        ContextPart(vector_db[answer.search.ranking[k]])]

\* C16: in a successful generate_response the returned sources hold one entry
\* per retrieved record in the order the vector store ranked them, duplicates
\* kept, and the context given to the generation service holds the retrieved
\* chunks' sections in the same order.
C16_SourcesInRankOrder ==
    Succeeded =>
        /\ Len(answer.out.result.sources) = RetrievedCount
        /\ \A k \in 1..RetrievedCount :
              answer.out.result.sources[k] =
                  vector_db[answer.search.ranking[k]].metadata
        /\ answer.out.context = Join(RankedSections, "\n\n---\n\n")

\* three records were retrieved, ranked in another order than the store
\* holds them, two of them from the same file, and the call succeeded with
\* three sources
C16_Witness ==
    /\ Succeeded
    /\ RetrievedCount = 3
    /\ answer.search.ranking[1] = 3
    /\ \E a, b \in 1..3 :
          /\ a # b
          /\ RankedSources[a].filename = RankedSources[b].filename
    /\ Len(answer.out.result.sources) = 3
    /\ answer.out.result.num_sources = 3

-----------------------------------------------------------------------------
(* Further properties of the batch ingestion (checked under Spec) *)

\* the metadata keys of an IndexedRecord
IndexedRecordKeys ==
    {"filename", "author", "title", "year", "chunk_index",
     "reference_citation", "in_text_citation"}

\* C17: every record written to the vector store carries the IndexedRecord
\* metadata: filename, author, title, year, chunk_index and the precomputed
\* reference and in-text citations.
C17_RecordsCarryCitations ==
    \A k \in 1..Len(vector_db) :
        IndexedRecordKeys \subseteq DOMAIN vector_db[k].metadata

\* the events of one kind about one file in the current run
EventsOf(op, path) ==
    {k \in 1..Len(events) : events[k].op = op /\ events[k].file = path}

\* the files of the current run during whose processing an external call failed
FilesWithFailure ==
    {RunFiles[d] : d \in {x \in 1..Len(RunFiles) :
        \E k \in 1..Len(events) :
            events[k].file = RunFiles[x] /\ Raised(events[k])}}

\* within one ingestion run each document's extraction and store write are
\* attempted at most once; within one generate_response the vector store is
\* queried exactly once and the generation service is called at most once
AttemptedAtMostOnce ==
    /\ \A d \in 1..Len(RunFiles) :
          /\ Cardinality(EventsOf("extract", RunFiles[d])) <= 1
          /\ Cardinality(EventsOf("add_documents", RunFiles[d])) <= 1
    /\ answer.called =>
          /\ answer.out.search_calls = 1
          /\ answer.out.llm_calls <= 1

\* C18: no external call is retried (each document's extraction and store
\* write at most once per run, one store query and at most one generation
\* call per generate_response), and a single failure surfaces as an error
\* outcome: the document is counted as failed, the answer is an error result.
C18_NoRetryFailureSurfaces ==
    /\ AttemptedAtMostOnce
    /\ RanBatches =>
          LastReport.total_failed >= Cardinality(FilesWithFailure)
    /\ answer.called /\ (\/ answer.search.raised
                         \/ (answer.out.llm_calls = 1 /\ answer.llm.raised)) =>
          /\ ~answer.out.raised
          /\ IsPrefix("Chyba", answer.out.result.response)

\* C19: in the final report total_processed counts only documents whose
\* records the store accepted, total_chunks is the number of records the
\* store accepted during the run (a first run, on an empty store), and a
\* document whose store write failed is counted as failed with an error
\* message recorded, not as processed.
C19_ReportCountsAcceptedRecords ==
    RanBatches /\ calls = 1 =>
        /\ LastReport.total_processed =
              Cardinality({d \in 1..Len(RunFiles) : Indexed(RunFiles[d])})
        /\ LastReport.total_chunks = Len(vector_db)
        /\ \A k \in 1..Len(events) :
              events[k].op = "add_documents" /\ ~events[k].ok =>
                  /\ InSeq(events[k].file, failed_files)
                  /\ ~InSeq(events[k].file, processed_files)
                  /\ ErrorRecorded(events[k].file)
                  /\ LastReport.total_failed >= 1

-----------------------------------------------------------------------------
(* A failing retrieval (checked under SpecQuery) *)

\* C20: when the embedding or vector-store query fails during retrieval,
\* generate_response does not raise and returns a result whose response text
\* explains the failure, not the no-match message of a retrieval that found
\* nothing.
C20_RetrievalFailureIsError ==
    answer.called /\ answer.search.raised =>
        /\ ~answer.out.raised
        /\ answer.out.result.response # ""
        /\ answer.out.result.response # NoMatchResponse

-----------------------------------------------------------------------------
(* The report's file lists (checked under Spec) *)

\* C22: after any sequence of index_all_documents calls on one BatchIndexer,
\* the final report of each call is self-consistent: processed_files has
\* total_processed entries, failed_files has total_failed entries, the two
\* lists are disjoint and together hold exactly the documents of that run.
C22_ReportListsConsistent ==
    RanBatches =>
        /\ Len(LastReport.processed_files) = LastReport.total_processed
        /\ Len(LastReport.failed_files) = LastReport.total_failed
        /\ Range(LastReport.processed_files)
              \cap Range(LastReport.failed_files) = {}
        /\ Range(LastReport.processed_files)
              \cup Range(LastReport.failed_files) = Range(RunFiles)

-----------------------------------------------------------------------------
(* The shape of the result of generate_response (checked under SpecQuery) *)

\* C23: every result generate_response returns, on the success, no-match and
\* error paths alike, has the keys response, sources, citations and
\* num_sources, with num_sources = len(sources).
C23_ResultKeysUniform ==
    answer.called /\ ~answer.out.raised =>
        /\ DOMAIN answer.out.result =
              {"response", "sources", "citations", "num_sources"}
        /\ answer.out.result.num_sources = Len(answer.out.result.sources)

=============================================================================
